---- MODULE Spec2Model ----
(***************************************************************************)
(* A model of teanga_spacy.SpacyService: the lazily loaded spaCy model     *)
(* handle (self.nlp), the four service methods setup(), requires(),        *)
(* produces() and execute(doc), and the document whose layers execute()    *)
(* writes.  The two collaborators, spacy.load / the loaded pipeline and    *)
(* the teanga Document, are modelled by what the service sees of them.     *)
(***************************************************************************)
EXTENDS Integers, Sequences, FiniteSets, TLC

VARIABLES
    nlp,        \* self.nlp: NoAttr while the attribute is unset, else the handle
    loadFailed, \* whether the most recent call of spacy.load raised
    doc,        \* the document handed to execute(): layer name -> layer data
    call        \* the last call made on the service and what the caller saw

vars == <<nlp, loadFailed, doc, call>>

----------------------------------------------------------------------------
(* Bounds of the model                                                     *)

MaxTextLen == 2

\* The characters of a text: a letter and a punctuation mark.
Chars == {"a", "."}

----------------------------------------------------------------------------
(* The service object                                                      *)

\* __init__ stores model_name only: the attribute nlp does not exist yet.
NoAttr == 0

\* hasattr(self, "nlp")
hasattr(h) == h # NoAttr

\* Truth value of a handle: a loaded spaCy pipeline object is truthy.
truthy(h) == h # NoAttr

SetupAlwaysLoads(h) == TRUE

\* The condition of setup(): not hasattr(self, "nlp") or not self.nlp
SetupNeedsLoad(h) == ~hasattr(h) \/ ~truthy(h)

ExecuteGuardNever(h) == FALSE

ExecuteGuardAlways(h) == TRUE

\* The guard of execute(): not hasattr(self, "nlp") or not self.nlp
ExecuteNotLoaded(h) == ~hasattr(h) \/ ~truthy(h)

----------------------------------------------------------------------------
(* The declared contracts                                                  *)

requires == [n \in {"text"} |-> [type |-> "characters"]]

UPOS == <<"ADJ", "ADP", "PUNCT", "ADV", "AUX", "SYM", "INTJ",
          "CCONJ", "X", "NOUN", "DET", "PROPN", "NUM", "VERB",
          "PART", "PRON", "SCONJ">>

DepValues == <<"acl", "acl:relcl", "advcl", "advcl:relcl",
               "advmod", "advmod:emph", "advmod:lmod", "amod",
               "appos", "aux", "aux:pass", "case",
               "cc", "cc:preconj", "ccomp", "clf",
               "compound", "compound:lvc", "compound:prt", "compound:redup",
               "compound:svc", "conj", "cop", "csubj",
               "csubj:outer", "csubj:pass", "dep", "det",
               "det:numgov", "det:nummod", "det:poss", "discourse",
               "dislocated", "expl", "expl:impers", "expl:pass",
               "expl:pv", "fixed", "flat", "flat:foreign",
               "flat:name", "goeswith", "iobj", "list", "mark",
               "nmod", "nmod:poss", "nmod:tmod", "nsubj",
               "nsubj:outer", "nsubj:pass", "nummod", "nummod:gov",
               "obj", "obl", "obl:agent", "obl:arg", "obl:lmod",
               "obl:tmod", "orphan", "parataxis", "punct",
               "reparandum", "root", "vocative", "xcomp">>

producesWithoutEntity ==
    [n \in {"tokens", "pos", "tag", "lemma", "dep"} |->
        CASE n = "tokens" -> [type |-> "span", on |-> "text"]
          [] n = "pos"    -> [type |-> "seq", on |-> "tokens", data |-> UPOS]
          [] n = "tag"    -> [type |-> "seq", on |-> "tokens", data |-> "string"]
          [] n = "lemma"  -> [type |-> "seq", on |-> "tokens", data |-> "string"]
          [] n = "dep"    -> [type |-> "seq", on |-> "tokens",
                              data |-> "links", values |-> DepValues]]

produces ==
    [n \in {"tokens", "pos", "tag", "lemma", "dep", "entity"} |->
        CASE n = "tokens" -> [type |-> "span", on |-> "text"]
          [] n = "pos"    -> [type |-> "seq", on |-> "tokens", data |-> UPOS]
          [] n = "tag"    -> [type |-> "seq", on |-> "tokens", data |-> "string"]
          [] n = "lemma"  -> [type |-> "seq", on |-> "tokens", data |-> "string"]
          [] n = "dep"    -> [type |-> "seq", on |-> "tokens",
                              data |-> "links", values |-> DepValues]
          [] n = "entity" -> [type |-> "span", on |-> "tokens", data |-> "string"]]

----------------------------------------------------------------------------
(* The document collaborator                                               *)

Texts == UNION {[1..n -> Chars] : n \in 0..MaxTextLen}

\* A document as corpus.add_doc(text) makes it: the text layer alone.
NewDocument(text) == [n \in {"text"} |-> text]

\* doc.get_layer(name).raw()
get_layer_raw(d, name) == d[name]

\* doc.add_layer(name, data)
add_layer(d, name, data) ==
    [n \in (DOMAIN d) \cup {name} |-> IF n = name THEN data ELSE d[n]]

RECURSIVE add_layers(_, _)
\* The add_layer calls of execute(), applied in order.
add_layers(d, layers) ==
    IF layers = <<>> THEN d
    ELSE add_layers(add_layer(d, Head(layers)[1], Head(layers)[2]), Tail(layers))

----------------------------------------------------------------------------------------------------------------------------------------
(* The loaded pipeline: what self.nlp(text) can return                     *)

\* The attributes the pipeline assigns to a token that starts with character c.
Lexeme(c) ==
    IF c = "a"
    THEN [pos_ |-> "NOUN", tag_ |-> "NN", lemma_ |-> "a", dep_ |-> "nsubj"]
    ELSE [pos_ |-> "PUNCT", tag_ |-> ".", lemma_ |-> ".", dep_ |-> "punct"]

RECURSIVE RunLen(_, _)
\* len(w) of the token at character offset i: a "." alone, or a run of letters.
RunLen(text, i) ==
    IF text[i + 1] = "." THEN 1
    ELSE IF i + 1 < Len(text) /\ text[i + 2] # "." THEN 1 + RunLen(text, i + 1)
    ELSE 1

RECURSIVE Tokenize(_, _)
\* The tokens of text from offset i on, as (w.idx, len(w)), in text order.
Tokenize(text, i) ==
    IF i >= Len(text) THEN <<>>
    ELSE <<[idx |-> i, len |-> RunLen(text, i)]>>
             \o Tokenize(text, i + RunLen(text, i))

RECURSIVE Ancestor(_, _, _)
\* The token reached from token k by following w.head.i `steps` times.
Ancestor(heads, k, steps) ==
    IF steps = 0 THEN k ELSE Ancestor(heads, heads[k + 1], steps - 1)

\* w.head.i for each token: a dependency forest, whose roots are their own head.
HeadSeqs(n) ==
    {h \in [1..n -> 0..(n - 1)] :
        \A k \in 0..(n - 1) :
            h[Ancestor(h, k, n) + 1] = Ancestor(h, k, n)}

\* w.dep_: a token that is its own head is the root.
DepLabel(c, k, head) == IF head = k THEN "root" ELSE Lexeme(c).dep_

\* result.ents over n tokens: non-empty, non-overlapping token spans, in order.
EntSeqs(n) ==
    UNION {{e \in [1..m -> {[start |-> a, end |-> b, label_ |-> "ORG"] :
                               a \in 0..(n - 1), b \in 1..n}] :
              /\ \A k \in 1..m : e[k].start < e[k].end
              /\ \A k \in 1..(m - 1) : e[k].end <= e[k + 1].start} :
           m \in 0..n}

\* The results self.nlp(text) can return: the tokens of the text, with any
\* dependency forest over them and any entity spans over them.
NlpResults(text) ==
    LET s == Tokenize(text, 0)
        n == Len(s)
    IN  {[tokens |-> [k \in 1..n |->
                        [idx |-> s[k].idx, len |-> s[k].len, head |-> h[k],
                         pos_ |-> Lexeme(text[s[k].idx + 1]).pos_,
                         tag_ |-> Lexeme(text[s[k].idx + 1]).tag_,
                         lemma_ |-> Lexeme(text[s[k].idx + 1]).lemma_,
                         dep_ |-> DepLabel(text[s[k].idx + 1], k - 1, h[k])]],
          ents |-> e] : h \in HeadSeqs(n), e \in EntSeqs(n)}

NoResult == [tokens |-> <<>>, ents |-> <<>>]

----------------------------------------------------------------------------
(* execute(): the layers written from a result                             *)

tokensLayer(result) ==
    [k \in 1..Len(result.tokens) |->
        <<result.tokens[k].idx, result.tokens[k].idx + result.tokens[k].len>>]

posLayer(result) == [k \in 1..Len(result.tokens) |-> result.tokens[k].pos_]

tagLayer(result) == [k \in 1..Len(result.tokens) |-> result.tokens[k].tag_]

lemmaLayer(result) == [k \in 1..Len(result.tokens) |-> result.tokens[k].lemma_]

depLayer(result) ==
    [k \in 1..Len(result.tokens) |->
        <<result.tokens[k].head, result.tokens[k].dep_>>]

entityLayer(result) ==
    [k \in 1..Len(result.ents) |->
        <<result.ents[k].start, result.ents[k].end, result.ents[k].label_>>]

ExecuteLayersNoEntity(result) ==
    << <<"tokens", tokensLayer(result)>>,
       <<"pos", posLayer(result)>>,
       <<"tag", tagLayer(result)>>,
       <<"lemma", lemmaLayer(result)>>,
       <<"dep", depLayer(result)>> >>

ExecuteLayersOverText(result) ==
    << <<"tokens", tokensLayer(result)>>,
       <<"pos", posLayer(result)>>,
       <<"tag", tagLayer(result)>>,
       <<"text", lemmaLayer(result)>>,
       <<"lemma", lemmaLayer(result)>>,
       <<"dep", depLayer(result)>>,
       <<"entity", entityLayer(result)>> >>

ExecuteLayersTagLemmaSwapped(result) ==
    << <<"tokens", tokensLayer(result)>>,
       <<"pos", posLayer(result)>>,
       <<"tag", lemmaLayer(result)>>,
       <<"lemma", tagLayer(result)>>,
       <<"dep", depLayer(result)>>,
       <<"entity", entityLayer(result)>> >>

ExecuteLayersOneBased(result) ==
    << <<"tokens", tokensLayer(result)>>,
       <<"pos", posLayer(result)>>,
       <<"tag", tagLayer(result)>>,
       <<"lemma", lemmaLayer(result)>>,
       <<"dep", [k \in 1..Len(result.tokens) |->
                   <<result.tokens[k].head + 1, result.tokens[k].dep_>>]>>,
       <<"entity", entityLayer(result)>> >>

\* The six add_layer calls of execute(), as <<name, data>>, in program order.
ExecuteLayers(result) ==
    << <<"tokens", tokensLayer(result)>>,
       <<"pos", posLayer(result)>>,
       <<"tag", tagLayer(result)>>,
       <<"lemma", lemmaLayer(result)>>,
       <<"dep", depLayer(result)>>,
       <<"entity", entityLayer(result)>> >>

----------------------------------------------------------------------------
(* The calls                                                               *)

\* What the caller of a service method observes, with the facts about the
\* call the properties below speak of: whether spacy.load was called
\* (loaded) and whether that was after an earlier load had raised (retry),
\* whether the pipeline was invoked (invoked), the value returned (ret), the
\* layer names the document had before the call (pre) and the result the
\* pipeline returned (result).
Call(op, outcome, loaded, invoked, ret, pre, result) ==
    [op |-> op, outcome |-> outcome, loaded |-> loaded, retry |-> FALSE,
     invoked |-> invoked, ret |-> ret, pre |-> pre, result |-> result]

\* spacy.load returns a new pipeline object, distinct from the one held.
NewHandle(old) == IF old = 1 THEN 2 ELSE 1

NoReturn == <<>>

Init ==
    /\ nlp = NoAttr
    /\ loadFailed = FALSE
    /\ doc \in {NewDocument(t) : t \in Texts}
    /\ call = Call("init", "ok", FALSE, FALSE, NoReturn, DOMAIN doc, NoResult)

HandleKeptOnFailure(old, fresh, ok) == fresh

\* self.nlp = spacy.load(...): the assignment happens only if load returns.
HandleAfterLoad(old, fresh, ok) == IF ok THEN fresh ELSE old

\* setup(): load the model unless one is loaded; spacy.load may raise.
Setup ==
    /\ IF SetupNeedsLoad(nlp)
       THEN \E ok \in BOOLEAN :
                /\ nlp' = HandleAfterLoad(nlp, NewHandle(nlp), ok)
                /\ loadFailed' = ~ok
                /\ call' = [Call("setup", IF ok THEN "ok" ELSE "LoadError",
                                 TRUE, FALSE, NoReturn, DOMAIN doc, NoResult)
                               EXCEPT !.retry = loadFailed]
       ELSE /\ UNCHANGED <<nlp, loadFailed>>
            /\ call' = Call("setup", "ok", FALSE, FALSE, NoReturn,
                            DOMAIN doc, NoResult)
    /\ UNCHANGED doc

RequiresNeedsModel ==
    /\ call' = IF ExecuteNotLoaded(nlp)
               THEN Call("requires", "NotLoaded", FALSE, FALSE, NoReturn,
                         DOMAIN doc, NoResult)
               ELSE Call("requires", "ok", FALSE, FALSE, requires,
                         DOMAIN doc, NoResult)
    /\ UNCHANGED <<nlp, loadFailed, doc>>

\* requires(): returns the input contract.
Requires ==
    /\ call' = Call("requires", "ok", FALSE, FALSE, requires, DOMAIN doc, NoResult)
    /\ UNCHANGED <<nlp, loadFailed, doc>>

\* produces(): returns the output contract.
Produces ==
    /\ call' = Call("produces", "ok", FALSE, FALSE, produces, DOMAIN doc, NoResult)
    /\ UNCHANGED <<nlp, loadFailed, doc>>

\* execute(doc): the guard, the pipeline call (which may raise), the six layers.
Execute ==
    /\ IF ExecuteNotLoaded(nlp)
       THEN /\ call' = Call("execute", "NotLoaded", FALSE, FALSE, NoReturn,
                            DOMAIN doc, NoResult)
            /\ UNCHANGED doc
       ELSE \/ /\ call' = Call("execute", "ModelError", FALSE, TRUE, NoReturn,
                               DOMAIN doc, NoResult)
               /\ UNCHANGED doc
            \/ \E result \in NlpResults(get_layer_raw(doc, "text")) :
                /\ doc' = add_layers(doc, ExecuteLayers(result))
                /\ call' = Call("execute", "ok", FALSE, TRUE, NoReturn,
                                DOMAIN doc, result)
    /\ UNCHANGED <<nlp, loadFailed>>

\* The caller takes up another document: corpus.add_doc(text).
AddDoc ==
    /\ \E t \in Texts : doc' = NewDocument(t)
    /\ call' = Call("add_doc", "ok", FALSE, FALSE, NoReturn, {"text"}, NoResult)
    /\ UNCHANGED <<nlp, loadFailed>>

Next ==
    \/ Setup
    \/ Requires
    \/ Produces
    \/ Execute
    \/ AddDoc

Spec == Init /\ [][Next]_vars

----------------------------------------------------------------------------
(* Properties                                                              *)

ExecuteOk == call.op = "execute" /\ call.outcome = "ok"

\* The layer names the last successful execute() passed to add_layer.
Written == {ExecuteLayers(call.result)[k][1] :
              k \in 1..Len(ExecuteLayers(call.result))}

\* C1: execute() on a service whose nlp attribute was never assigned fails
\* with the "model not loaded" error; it calls neither spacy.load nor the
\* pipeline and leaves the document and the service as they were.
C1_ExecuteBeforeSetupFails ==
    [][(nlp = NoAttr /\ call'.op = "execute") =>
          /\ call'.outcome = "NotLoaded"
          /\ ~call'.loaded
          /\ ~call'.invoked
          /\ doc' = doc
          /\ nlp' = nlp
          /\ loadFailed' = loadFailed]_vars

C1_Witness ==
    /\ call.op = "execute"
    /\ call.outcome = "NotLoaded"
    /\ nlp = NoAttr
    /\ DOMAIN doc = {"text"}

\* C2: a setup() made while a model is loaded succeeds without calling
\* spacy.load and keeps the same handle.
C2_SetupIdempotent ==
    [][(nlp # NoAttr /\ call'.op = "setup") =>
          /\ call'.outcome = "ok"
          /\ ~call'.loaded
          /\ loadFailed' = loadFailed
          /\ nlp' = nlp
          /\ doc' = doc]_vars

C2_Witness ==
    /\ call.op = "setup"
    /\ call.outcome = "ok"
    /\ ~call.loaded
    /\ nlp # NoAttr

\* C3: once a handle is held, no call removes or replaces it, and no later
\* execute() fails with the "model not loaded" error.
C3_ReadyIsTerminal ==
    [][nlp # NoAttr =>
          /\ nlp' = nlp
          /\ (call'.op = "execute" => call'.outcome # "NotLoaded")]_vars

C3_Witness ==
    /\ nlp # NoAttr
    /\ ExecuteOk
    /\ call.pre # {"text"}

\* C4 as stated: a successful execute() on a document holding only the text
\* layer adds exactly five layers.
C4_FiveNewLayers ==
    (ExecuteOk /\ call.pre = {"text"}) =>
        Cardinality((DOMAIN doc) \ call.pre) = 5

\* C4 as amended: a successful execute() on a document holding only the text
\* layer adds exactly six layers: tokens, pos, tag, lemma, dep and entity.
C4_SixNewLayers ==
    (ExecuteOk /\ call.pre = {"text"}) =>
        /\ Cardinality((DOMAIN doc) \ call.pre) = 6
        /\ (DOMAIN doc) \ call.pre =
              {"tokens", "pos", "tag", "lemma", "dep", "entity"}

C4_Witness ==
    /\ ExecuteOk
    /\ call.pre = {"text"}
    /\ Cardinality(DOMAIN doc) = 7

\* C5: whatever the outcome of execute(), the text layer of the document
\* after the call is the text layer before it.
C5_TextUnmodified ==
    [][call'.op = "execute" =>
          /\ "text" \in DOMAIN doc'
          /\ doc'["text"] = doc["text"]]_vars

C5_Witness ==
    /\ ExecuteOk
    /\ Len(doc["text"]) = MaxTextLen
    /\ Len(doc["tokens"]) = 1

\* C6: after a successful execute() the tokens, pos, tag, lemma and dep
\* layers all have the length of the result's token sequence, and entry i
\* of each is taken from the i-th token of the result.
C6_ParallelLayers ==
    ExecuteOk =>
        LET w == call.result.tokens
            n == Len(w)
        IN  /\ \A name \in {"tokens", "pos", "tag", "lemma", "dep"} :
                   Len(doc[name]) = n
            /\ \A i \in 1..n :
                   /\ doc["tokens"][i] = <<w[i].idx, w[i].idx + w[i].len>>
                   /\ doc["pos"][i] = w[i].pos_
                   /\ doc["tag"][i] = w[i].tag_
                   /\ doc["lemma"][i] = w[i].lemma_
                   /\ doc["dep"][i] = <<w[i].head, w[i].dep_>>

C6_Witness ==
    /\ ExecuteOk
    /\ Len(doc["tokens"]) = 2
    /\ doc["pos"][1] # doc["pos"][2]

\* C8: after a successful execute() every head index in dep is an index of
\* the tokens layer and every entity entry (start, end, label) satisfies
\* 0 <= start < end <= number of tokens.
C8_TokenIndicesValid ==
    ExecuteOk =>
        LET n == Len(doc["tokens"])
        IN  /\ \A i \in 1..Len(doc["dep"]) :
                   doc["dep"][i][1] \in 0..(n - 1)
            /\ \A j \in 1..Len(doc["entity"]) :
                   /\ 0 <= doc["entity"][j][1]
                   /\ doc["entity"][j][1] < doc["entity"][j][2]
                   /\ doc["entity"][j][2] <= n

C8_Witness ==
    /\ ExecuteOk
    /\ Len(doc["tokens"]) = 2
    /\ doc["dep"][1][1] = 1
    /\ Len(doc["entity"]) = 1
    /\ doc["entity"][1][2] = 2

\* C7: requires() and produces() succeed whether or not a model is loaded,
\* return the declared layer names with their kinds, call neither spacy.load
\* nor the pipeline, and change neither the handle nor the document.
C7_MetadataIsPure ==
    [][(call'.op \in {"requires", "produces"}) =>
          /\ call'.outcome = "ok"
          /\ ~call'.loaded
          /\ ~call'.invoked
          /\ nlp' = nlp
          /\ loadFailed' = loadFailed
          /\ doc' = doc
          /\ (call'.op = "requires" =>
                /\ DOMAIN call'.ret = {"text"}
                /\ call'.ret["text"].type = "characters")
          /\ (call'.op = "produces" =>
                /\ DOMAIN call'.ret =
                      {"tokens", "pos", "tag", "lemma", "dep", "entity"}
                /\ call'.ret["tokens"].on = "text"
                /\ \A n \in {"pos", "tag", "lemma", "dep", "entity"} :
                      call'.ret[n].on = "tokens")]_vars

C7_Witness ==
    /\ call.op \in {"requires", "produces"}
    /\ call.outcome = "ok"
    /\ nlp = NoAttr
    /\ loadFailed

\* C9: the layer names a successful execute() writes are exactly the names
\* produces() declares, none of them is a name requires() declares, and the
\* document then holds its earlier layers and those.
C9_WritesWhatProducesDeclares ==
    ExecuteOk =>
        /\ Written = DOMAIN produces
        /\ Written \cap DOMAIN requires = {}
        /\ DOMAIN doc = call.pre \cup DOMAIN produces

C9_Witness ==
    /\ ExecuteOk
    /\ Written = {"tokens", "pos", "tag", "lemma", "dep", "entity"}
    /\ Len(doc["entity"]) > 0

\* C10: a setup() whose load fails reports the load error and retains no
\* handle; after it execute() still fails with the "model not loaded" error
\* and the next setup() calls spacy.load again.
C10_FailedSetupStaysUninitialized ==
    [][/\ (call'.op = "setup" /\ call'.outcome = "LoadError") =>
            /\ call'.loaded
            /\ nlp = NoAttr
            /\ nlp' = NoAttr
            /\ loadFailed'
            /\ doc' = doc
       /\ (call.op = "setup" /\ call.outcome = "LoadError") =>
            /\ (call'.op = "execute" => call'.outcome = "NotLoaded")
            /\ (call'.op = "setup" =>
                   call'.loaded /\ call'.retry)]_vars

C10_Witness ==
    /\ call.op = "setup"
    /\ call.outcome = "LoadError"
    /\ call.retry
    /\ nlp = NoAttr

====
